---------------------------- MODULE Spec2Model ----------------------------
(***************************************************************************)
(* DD1750 core (src/dd1750_core.py): extraction of packing-list items     *)
(* from a bill-of-materials document and their layout on 18-row pages.    *)
(*                                                                         *)
(* Text is a sequence of one-character strings, so that the substring,     *)
(* strip, split and pattern operations of the source are computed and not  *)
(* assumed.  Python's None is the value None below; a table is a sequence  *)
(* of rows, a row a sequence of cells, a cell a text or None.              *)
(***************************************************************************)
EXTENDS Integers, Sequences, FiniteSets, TLC

VARIABLES
    call,        \* one invocation of a pure helper: [fn, arg, ret, first, n]
    pdf,         \* extract_items_from_pdf: the document behind pdf_path
    start_page,  \* extract_items_from_pdf: its argument
    pc,          \* extract_items_from_pdf: "idle", "call", "pages", "returned"
    result,      \* the ExtractionResult
    all_items,   \* the items gathered by the page loop
    page_idx,    \* the position in pdf.pages of the page the loop is at
    raised,      \* an exception left extract_items_from_pdf
    gen_items,   \* generate_dd1750_from_items: its argument items
    gen_header,  \* its argument header: <<>> for None, <<h>> for a HeaderInfo h
    env,         \* whether the template can be read and the output written
    gpc,         \* generate_dd1750_from_items: "idle", "call", "pages", "fields",
                 \* "returned", "raised"
    total_pages, \* math.ceil(len(items) / ROWS_PER_PAGE)
    page_num,    \* the 0-based page the loop is at
    writer,      \* the pages added to the PdfWriter
    output,      \* the pages of the file at output_path
    gen_ret      \* the returned (output_path, item_count)

callVars == <<call>>

extractVars == <<pdf, start_page, pc, result, all_items, page_idx, raised>>

genVars == <<gen_items, gen_header, env, gpc, total_pages, page_num, writer, output, gen_ret>>

vars == <<callVars, extractVars, genVars>>

-----------------------------------------------------------------------------
(* Python values and str methods                                           *)

None == <<"None">>

Falsy(v) == v = None \/ v = <<>>

Str(v) == IF v = None THEN <<"N","o","n","e">> ELSE v

Digits == {"0","1","2","3","4","5","6","7","8","9"}

LowerSeq == <<"a","b","c","d","e","f","g","h","i","j","k","l","m",
              "n","o","p","q","r","s","t","u","v","w","x","y","z">>

UpperSeq == <<"A","B","C","D","E","F","G","H","I","J","K","L","M",
              "N","O","P","Q","R","S","T","U","V","W","X","Y","Z">>

Letters == {LowerSeq[i] : i \in 1..26} \cup {UpperSeq[i] : i \in 1..26}

Whitespace == {" ", "\n", "\t"}

IsDigit(c) == c \in Digits

\* \w of the re module
IsWordChar(c) == c \in Digits \cup Letters \cup {"_"}

UpperChar(c) ==
    IF \E i \in 1..26 : LowerSeq[i] = c
    THEN UpperSeq[CHOOSE i \in 1..26 : LowerSeq[i] = c]
    ELSE c

Upper(s) == [i \in 1..Len(s) |-> UpperChar(s[i])]

RECURSIVE LStrip(_)
LStrip(s) ==
    IF s # <<>> /\ s[1] \in Whitespace THEN LStrip(Tail(s)) ELSE s

RECURSIVE RStrip(_)
RStrip(s) ==
    IF s # <<>> /\ s[Len(s)] \in Whitespace
    THEN RStrip(SubSeq(s, 1, Len(s) - 1))
    ELSE s

Strip(s) == RStrip(LStrip(s))

\* sub occurs in s at position p (1-based)
OccursAt(s, sub, p) ==
    /\ p >= 1
    /\ p + Len(sub) - 1 <= Len(s)
    /\ \A k \in 1..Len(sub) : s[p + k - 1] = sub[k]

\* sub in s
Contains(s, sub) == \E p \in 1..(Len(s) + 1) : OccursAt(s, sub, p)

\* s.split('\n'): always at least one piece
RECURSIVE SplitLines(_)
SplitLines(s) ==
    IF \E p \in 1..Len(s) : s[p] = "\n"
    THEN LET p == CHOOSE q \in 1..Len(s) :
                    s[q] = "\n" /\ \A r \in 1..(q - 1) : s[r] # "\n"
         IN  <<SubSeq(s, 1, p - 1)>> \o SplitLines(SubSeq(s, p + 1, Len(s)))
    ELSE <<s>>

RECURSIVE Join(_, _)
Join(parts, sep) ==
    IF parts = <<>> THEN <<>>
    ELSE IF Len(parts) = 1 THEN parts[1]
    ELSE parts[1] \o sep \o Join(Tail(parts), sep)

\* \b at the gap before position p (p in 1..Len(s)+1)
WordBoundary(s, p) ==
    LET before == p > 1 /\ IsWordChar(s[p - 1])
        after  == p <= Len(s) /\ IsWordChar(s[p])
    IN  before # after

DigitsAt(s, p, n) ==
    /\ p >= 1
    /\ p + n - 1 <= Len(s)
    /\ \A k \in 0..(n - 1) : IsDigit(s[p + k])

\* the least element of a non-empty set of integers
Least(S) == CHOOSE x \in S : \A y \in S : x <= y

-----------------------------------------------------------------------------
(* extract_nsn_from_material                                               *)

NIIN_LEN == 9

\* re.match(r'^(\d{9})\b', line)
MatchNiinAtStart(line) ==
    DigitsAt(line, 1, NIIN_LEN) /\ WordBoundary(line, NIIN_LEN + 1)

\* positions where r'\b(\d{9})\b' matches
NiinPositions(text) ==
    {p \in 1..Len(text) :
        /\ WordBoundary(text, p)
        /\ DigitsAt(text, p, NIIN_LEN)
        /\ WordBoundary(text, p + NIIN_LEN)}

\* r'\b(\d{4})-(\d{2})-(\d{3})-(\d{4})\b' matches at p
FullNsnAt(text, p) ==
    /\ WordBoundary(text, p)
    /\ DigitsAt(text, p, 4)
    /\ OccursAt(text, <<"-">>, p + 4)
    /\ DigitsAt(text, p + 5, 2)
    /\ OccursAt(text, <<"-">>, p + 7)
    /\ DigitsAt(text, p + 8, 3)
    /\ OccursAt(text, <<"-">>, p + 11)
    /\ DigitsAt(text, p + 12, 4)
    /\ WordBoundary(text, p + 16)

FullNsnPositions(text) == {p \in 1..Len(text) : FullNsnAt(text, p)}

\* group(2) + group(3) + group(4) of the match at p
NsnGroups234(text, p) ==
    SubSeq(text, p + 5, p + 6) \o SubSeq(text, p + 8, p + 10)
        \o SubSeq(text, p + 12, p + 15)

NsnGroups123(text, p) ==
    SubSeq(text, p, p + 3) \o SubSeq(text, p + 5, p + 6)
        \o SubSeq(text, p + 8, p + 10)

NsnFromFullMatch(text, p) == NsnGroups234(text, p)

extract_nsn_from_material(material_text) ==
    IF Falsy(material_text) THEN <<>>
    ELSE
      LET text  == Strip(Str(material_text))
          lines == SplitLines(text)
          hits  == {i \in 1..Len(lines) : MatchNiinAtStart(Strip(lines[i]))}
      IN  IF hits # {}
          THEN SubSeq(Strip(lines[Least(hits)]), 1, NIIN_LEN)
          ELSE IF NiinPositions(text) # {}
          THEN LET p == Least(NiinPositions(text))
               IN  SubSeq(text, p, p + NIIN_LEN - 1)
          ELSE IF FullNsnPositions(text) # {}
          THEN NsnFromFullMatch(text, Least(FullNsnPositions(text)))
          ELSE <<>>

-----------------------------------------------------------------------------
(* Material cells the helper is applied to: None, or up to MaxTokens       *)
(* pieces of material-column text put end to end.                          *)

MaxTokens == 3

MaterialTokens ==
    { <<"0","0","2","6","4","3","7","9","6">>,
      <<"6","5","4","5","-","0","0","-","9","2","2","-","1","2","0","0">>,
      <<"1","1","6","5","5","7","7","8","-","5">>,
      <<"C","_">>,
      <<" ","~"," ">>,
      <<"\n">>,
      <<"7">>,
      <<"-">> }

RECURSIVE TokenTexts(_)
TokenTexts(n) ==
    IF n = 0 THEN {<<>>}
    ELSE TokenTexts(n - 1)
            \cup {t \o w : t \in TokenTexts(n - 1), w \in MaterialTokens}

MaterialCells == {None} \cup TokenTexts(MaxTokens)

-----------------------------------------------------------------------------
(* BomFormat and detect_bom_format                                         *)

GCSS_ARMY_STANDARD == "gcss_army_standard"

EPP_FORMAT == "epp_format"

UNKNOWN == "unknown"

\* ' '.join(str(cell or '') for cell in header).upper()
HeaderText(header) ==
    Upper(Join([i \in 1..Len(header) |->
                    Str(IF Falsy(header[i]) THEN <<>> ELSE header[i])],
               <<" ">>))

\* some non-empty table's first row carries 'LV' or 'LEVEL'
HasLvHeader(tables) ==
    \E t \in 1..Len(tables) :
        /\ tables[t] # <<>>
        /\ \/ Contains(HeaderText(tables[t][1]), <<"L","V">>)
           \/ Contains(HeaderText(tables[t][1]), <<"L","E","V","E","L">>)

\* some non-empty table's first row carries 'MATERIAL' and 'DESCRIPTION'
HasMaterialDescriptionHeader(tables) ==
    \E t \in 1..Len(tables) :
        /\ tables[t] # <<>>
        /\ Contains(HeaderText(tables[t][1]), <<"M","A","T","E","R","I","A","L">>)
        /\ Contains(HeaderText(tables[t][1]), <<"D","E","S","C","R","I","P","T","I","O","N">>)

\* the EPP markers are looked for only after the listing branch fell through
EppBeforeListing(tables, page_text) ==
    IF \/ Contains(Upper(page_text), <<"P","W","R"," ","P","L","A","N","T">>)
       \/ Contains(Upper(page_text), <<"O","P","E","R","A","T","I","O","N","A","L"," ","S","U","P","P","O","R","T">>)
    THEN EPP_FORMAT
    ELSE IF /\ \/ Contains(Upper(page_text), <<"C","O","M","P","O","N","E","N","T"," ","L","I","S","T","I","N","G">>)
               \/ Contains(Upper(page_text), <<"H","A","N","D"," ","R","E","C","E","I","P","T">>)
            /\ \/ HasLvHeader(tables)
               \/ /\ Contains(Upper(page_text), <<"A","U","T","H">>)
                  /\ Contains(Upper(page_text), <<"Q","T","Y">>)
    THEN GCSS_ARMY_STANDARD
    ELSE IF HasMaterialDescriptionHeader(tables)
    THEN GCSS_ARMY_STANDARD
    ELSE UNKNOWN

detect_bom_format(tables, page_text) ==
    IF /\ \/ Contains(Upper(page_text), <<"C","O","M","P","O","N","E","N","T"," ","L","I","S","T","I","N","G">>)
          \/ Contains(Upper(page_text), <<"H","A","N","D"," ","R","E","C","E","I","P","T">>)
       /\ \/ HasLvHeader(tables)
          \/ /\ Contains(Upper(page_text), <<"A","U","T","H">>)
             /\ Contains(Upper(page_text), <<"Q","T","Y">>)
    THEN GCSS_ARMY_STANDARD
    ELSE IF \/ Contains(Upper(page_text), <<"P","W","R"," ","P","L","A","N","T">>)
            \/ Contains(Upper(page_text), <<"O","P","E","R","A","T","I","O","N","A","L"," ","S","U","P","P","O","R","T">>)
    THEN EPP_FORMAT
    ELSE IF HasMaterialDescriptionHeader(tables)
    THEN GCSS_ARMY_STANDARD
    ELSE UNKNOWN

-----------------------------------------------------------------------------
(* Pages the detector is applied to: the text is up to MaxFragments of the *)
(* fragments below on lines of their own, the tables one of DetectTables.  *)

MaxFragments == 3

TextFragments ==
    << <<"C","o","m","p","o","n","e","n","t"," ","L","i","s","t","i","n","g">>,
       <<"H","A","N","D"," ","R","E","C","E","I","P","T">>,
       <<"A","u","t","h">>,
       <<"Q","T","Y">>,
       <<"P","W","R"," ","P","L","A","N","T">>,
       <<"O","p","e","r","a","t","i","o","n","a","l"," ","S","u","p","p","o","r","t">>,
       <<"L","V"," ","M","a","t","e","r","i","a","l"," ","D","e","s","c","r","i","p","t","i","o","n">> >>

\* the chosen fragments, in the order of TextFragments, one per line
RECURSIVE FragmentText(_, _)
FragmentText(chosen, i) ==
    IF i > Len(TextFragments) THEN <<>>
    ELSE IF i \in chosen
    THEN TextFragments[i] \o <<"\n">> \o FragmentText(chosen, i + 1)
    ELSE FragmentText(chosen, i + 1)

PageTexts ==
    {FragmentText(c, 1) : c \in {d \in SUBSET (1..Len(TextFragments)) :
                                    Cardinality(d) <= MaxFragments}}

DetectTables ==
    { <<>>,
      << <<>> >>,
      << << <<<<"M","a","t","e","r","i","a","l">>, <<"L","V">>, <<"D","e","s","c","r","i","p","t","i","o","n">>>> >> >>,
      << << <<<<"M","a","t","e","r","i","a","l">>, None, <<"D","e","s","c","r","i","p","t","i","o","n">>>> >> >>,
      << <<>>, << <<<<"I","t","e","m">>, <<"L","e","v","e","l">>>> >> >>,
      << << <<<<"S","o","l","v","e","n","t">>, <<"I","t","e","m">>>> >> >>,
      << << <<<<"M","a","t","e","r","i","a","l">>, <<"I","t","e","m">>>> >>, << <<<<"D","e","s","c","r","i","p","t","i","o","n">>>> >> >>,
      << << <<<<"I","t","e","m">>, <<>>>>, <<<<"M","a","t","e","r","i","a","l">>, <<"L","V">>, <<"D","e","s","c","r","i","p","t","i","o","n">>>> >> >> }

-----------------------------------------------------------------------------
(* find_column_indices.  An index is 0-based as in the source; a role that *)
(* is not resolved (None in the source) is <<>>, a resolved one <<i>>.     *)

\* text.replace('\n', ' ')
ReplaceNewlines(s) == [i \in 1..Len(s) |-> IF s[i] = "\n" THEN " " ELSE s[i]]

\* str.split(): the maximal runs of non-whitespace characters
RECURSIVE SplitWhitespace(_)
SplitWhitespace(s) ==
    LET t == LStrip(s)
    IN  IF t = <<>> THEN <<>>
        ELSE IF \E p \in 1..Len(t) : t[p] \in Whitespace
        THEN LET p == Least({q \in 1..Len(t) : t[q] \in Whitespace})
             IN  <<SubSeq(t, 1, p - 1)>> \o SplitWhitespace(SubSeq(t, p, Len(t)))
        ELSE <<t>>

InSeq(x, seq) == \E i \in 1..Len(seq) : seq[i] = x

NoIndices ==
    [lv |-> <<>>, description |-> <<>>, material |-> <<>>, auth_qty |-> <<>>,
     oh_qty |-> <<>>, ui |-> <<>>, image |-> <<>>]

\* the role a header cell is given by the first rule that matches, or "none"
ColumnRole(cell) ==
    LET text        == Strip(Upper(Str(cell)))
        text_joined == ReplaceNewlines(text)
    IN  IF text \in {<<"L","V">>, <<"L","E","V","E","L">>} \/ InSeq(<<"L","V">>, SplitWhitespace(text))
        THEN "lv"
        ELSE IF Contains(text, <<"D","E","S","C">>) THEN "description"
        ELSE IF Contains(text, <<"M","A","T","E","R","I","A","L">>) \/ text = <<"M","A","T">> THEN "material"
        ELSE IF \/ Contains(text_joined, <<"A","U","T","H">>) /\ Contains(text_joined, <<"Q","T","Y">>)
                \/ text_joined = <<"A","U","T","H"," ","Q","T","Y">>
        THEN "auth_qty"
        ELSE IF \/ Contains(text_joined, <<"O","H">>) /\ Contains(text_joined, <<"Q","T","Y">>)
                \/ text_joined = <<"O","H"," ","Q","T","Y">>
        THEN "oh_qty"
        ELSE IF text = <<"U","I">> \/ text = <<"U","N","I","T">> THEN "ui"
        ELSE IF Contains(text, <<"I","M","A","G","E">>) \/ text = <<"I","M","G">> THEN "image"
        ELSE "none"

\* the cells of header from position i (1-based) on, applied to indices in order
RECURSIVE ScanHeader(_, _, _)
ScanHeader(header, i, indices) ==
    IF i > Len(header) THEN indices
    ELSE IF Falsy(header[i]) \/ ColumnRole(header[i]) = "none"
    THEN ScanHeader(header, i + 1, indices)
    ELSE ScanHeader(header, i + 1,
                    [indices EXCEPT ![ColumnRole(header[i])] = <<i - 1>>])

find_column_indices(header) == ScanHeader(header, 1, NoIndices)

\* row[idx] if idx < len(row) else None, for a resolved index
CellAt(row, idx) == IF idx[1] < Len(row) THEN row[idx[1] + 1] ELSE None

-----------------------------------------------------------------------------
(* Field extractors                                                        *)

DigitSeq == <<"0","1","2","3","4","5","6","7","8","9">>

DigitValue(c) == (CHOOSE i \in 1..10 : DigitSeq[i] = c) - 1

\* int() of a run of digits
RECURSIVE ParseInt(_)
ParseInt(ds) ==
    IF ds = <<>> THEN 0
    ELSE 10 * ParseInt(SubSeq(ds, 1, Len(ds) - 1)) + DigitValue(ds[Len(ds)])

\* the run of digits is cut after its first digit
FirstDigitOnly(s, p) == p

\* the end of the run of digits that starts at p
RECURSIVE DigitRunEnd(_, _)
DigitRunEnd(s, p) ==
    IF p + 1 <= Len(s) /\ IsDigit(s[p + 1]) THEN DigitRunEnd(s, p + 1) ELSE p

extract_quantity(qty_cell) ==
    IF Falsy(qty_cell) THEN 1
    ELSE LET qty_str == Strip(Str(qty_cell))
             ds      == {p \in 1..Len(qty_str) : IsDigit(qty_str[p])}
         IN  IF ds # {}
             THEN ParseInt(SubSeq(qty_str, Least(ds), DigitRunEnd(qty_str, Least(ds))))
             ELSE 1

\* re.sub(r'\s+', ' ', s)
RECURSIVE CollapseWhitespace(_)
CollapseWhitespace(s) ==
    IF s = <<>> THEN <<>>
    ELSE IF s[1] \in Whitespace
    THEN <<" ">> \o CollapseWhitespace(LStrip(s))
    ELSE <<s[1]>> \o CollapseWhitespace(Tail(s))

Slashes == {"/", "\\"}

RECURSIVE DropTrailingSlashes(_)
DropTrailingSlashes(s) ==
    IF s # <<>> /\ s[Len(s)] \in Slashes
    THEN DropTrailingSlashes(SubSeq(s, 1, Len(s) - 1))
    ELSE s

\* re.sub(r'[/\\]+\s*$', '', s)
RemoveTrailingSlashes(s) ==
    IF RStrip(s) # <<>> /\ RStrip(s)[Len(RStrip(s))] \in Slashes
    THEN DropTrailingSlashes(RStrip(s))
    ELSE s

\* s[:n]
Prefix(s, n) == SubSeq(s, 1, IF Len(s) < n THEN Len(s) ELSE n)

\* s.split('(')[0]
BeforeParenthesis(s) ==
    IF \E p \in 1..Len(s) : s[p] = "("
    THEN SubSeq(s, 1, Least({p \in 1..Len(s) : s[p] = "("}) - 1)
    ELSE s

TrailingCodes ==
    {<<"W","T","Y">>, <<"A","R","C">>, <<"C","I","I","C">>, <<"U","I">>, <<"S","C","M","C">>, <<"E","A">>, <<"A","Y">>, <<"9","K">>, <<"9","G">>,
     <<"9","B">>, <<"9","T">>, <<"2","B">>, <<"2","E">>, <<"2","W">>, <<"2","T">>, <<"8","5">>, <<"7","K">>, <<"7","B">>}

\* s ends with whitespace followed by the code c, in either case
EndsWithCode(s, c) ==
    /\ Len(s) > Len(c)
    /\ Upper(SubSeq(s, Len(s) - Len(c) + 1, Len(s))) = c
    /\ s[Len(s) - Len(c)] \in Whitespace

\* re.sub(r'\s+(WTY|...|7B)$', '', s, flags=re.IGNORECASE)
RemoveTrailingCode(s) ==
    IF \E c \in TrailingCodes : EndsWithCode(s, c)
    THEN LET c == CHOOSE d \in TrailingCodes : EndsWithCode(s, d)
         IN  RStrip(SubSeq(s, 1, Len(s) - Len(c)))
    ELSE s

clean_description(desc_text) ==
    IF Falsy(desc_text) THEN <<>>
    ELSE LET lines == SplitLines(Strip(Str(desc_text)))
             line  == IF Len(lines) >= 2 THEN Strip(lines[2]) ELSE Strip(lines[1])
             cut   == IF \E p \in 1..Len(line) : line[p] = "("
                      THEN Strip(BeforeParenthesis(line))
                      ELSE line
         IN  Strip(CollapseWhitespace(RemoveTrailingCode(cut)))

-----------------------------------------------------------------------------
(* BomItem and the two per-format extractors                               *)

UNIT_OF_ISSUE == <<"E","A">>

MAX_DESCRIPTION == 100

\* BomItem(...); __post_init__ copies the description
BomItem(line_no, description, nsn, qty) ==
    [line_no |-> line_no, description |-> description, nsn |-> nsn,
     qty |-> qty, unit_of_issue |-> UNIT_OF_ISSUE,
     original_description |-> description]

\* any(cell for cell in row if cell)
HasContent(row) == \E i \in 1..Len(row) : ~Falsy(row[i])

\* the first header cell whose text has the marker, as an index; <<>> if none
FirstHeaderWith(header, marker) ==
    LET hits == {i \in 1..Len(header) :
                    ~Falsy(header[i]) /\ Contains(Upper(Str(header[i])), marker)}
    IN  IF hits = {} THEN <<>> ELSE <<Least(hits) - 1>>

\* indices after the standard extractor's second look for a description column
StdIndices(header) ==
    LET indices == find_column_indices(header)
    IN  IF indices.description = <<>>
        THEN [indices EXCEPT !.description = FirstHeaderWith(header, <<"D","E","S","C">>)]
        ELSE indices

\* the level test of the standard extractor accepts every marked row
AnyLevelPasses(lv_cell) == ~Falsy(lv_cell)

\* the level test of the standard extractor: the row is kept only if marked B
StdLevelPasses(lv_cell) ==
    /\ ~Falsy(lv_cell)
    /\ Upper(Strip(Str(lv_cell))) = <<"B">>

\* the first line of at least three characters, whitespace-normalised,
\* trailing slashes removed; '' for an empty cell
StdDescription(desc_cell) ==
    IF Falsy(desc_cell) THEN <<>>
    ELSE LET lines == SplitLines(Strip(Str(desc_cell)))
             long  == {i \in 1..Len(lines) : Len(Strip(lines[i])) >= 3}
             line  == IF long = {} THEN <<>> ELSE Strip(lines[Least(long)])
         IN  RemoveTrailingSlashes(Strip(CollapseWhitespace(line)))

StdSkipPatterns ==
    {<<"C","O","M","P","O","N","E","N","T"," ","O","F"," ","E","N","D"," ","I","T","E","M">>, <<"B","A","S","I","C"," ","I","S","S","U","E"," ","I","T","E","M","S">>, <<"C","O","E","I","-">>, <<"B","I","I","-">>,
     <<"O","P","E","R","A","T","I","O","N","A","L"," ","S","U","P","P","O","R","T">>}

\* the items (none or one, line_no left to the caller) a data row gives
StdRowItem(indices, row) ==
    LET description == StdDescription(CellAt(row, indices.description))
        nsn == IF indices.material # <<>> /\ indices.material[1] < Len(row)
               THEN extract_nsn_from_material(CellAt(row, indices.material))
               ELSE <<>>
        qty == IF /\ indices.auth_qty # <<>>
                  /\ indices.auth_qty[1] < Len(row)
                  /\ ~Falsy(CellAt(row, indices.auth_qty))
               THEN extract_quantity(CellAt(row, indices.auth_qty))
               ELSE 1
    IN  IF ~HasContent(row) THEN <<>>
        ELSE IF indices.lv # <<>> /\ ~StdLevelPasses(CellAt(row, indices.lv))
        THEN <<>>
        ELSE IF Len(description) < 3 THEN <<>>
        ELSE IF \E pat \in StdSkipPatterns : Contains(Upper(description), pat)
        THEN <<>>
        ELSE <<[description |-> Prefix(description, MAX_DESCRIPTION),
                nsn |-> nsn, qty |-> qty]>>

\* items with the items of rows k.. of the table appended
RECURSIVE StdAppendRows(_, _, _, _)
StdAppendRows(indices, table, k, items) ==
    IF k > Len(table) THEN items
    ELSE LET got == StdRowItem(indices, table[k])
         IN  StdAppendRows(indices, table, k + 1,
                IF got = <<>> THEN items
                ELSE Append(items, BomItem(Len(items) + 1, got[1].description,
                                           got[1].nsn, got[1].qty)))

RECURSIVE StdAppendTables(_, _, _)
StdAppendTables(tables, t, items) ==
    IF t > Len(tables) THEN items
    ELSE IF Len(tables[t]) < 2 \/ StdIndices(tables[t][1]).description = <<>>
    THEN StdAppendTables(tables, t + 1, items)
    ELSE StdAppendTables(tables, t + 1,
            StdAppendRows(StdIndices(tables[t][1]), tables[t], 2, items))

extract_items_gcss_standard(tables) == StdAppendTables(tables, 1, <<>>)

\* the last header cell with 'DESCR' in it or equal to 'DESC', as an index
LastDescrHeader(header) ==
    LET hits == {i \in 1..Len(header) :
                    /\ ~Falsy(header[i])
                    /\ \/ Contains(Upper(Str(header[i])), <<"D","E","S","C","R">>)
                       \/ Upper(Str(header[i])) = <<"D","E","S","C">>}
    IN  IF hits = {} THEN <<>>
        ELSE <<(CHOOSE i \in hits : \A j \in hits : j <= i) - 1>>

\* indices after the EPP extractor's second look for a description column;
\* has_lv is taken before it and is indices.lv # <<>>
EppIndices(header) ==
    LET indices == find_column_indices(header)
    IN  IF indices.description = <<>>
        THEN [indices EXCEPT !.description = LastDescrHeader(header)]
        ELSE indices

\* the level test of the EPP extractor also drops rows without a level value
UnmarkedRowDropped(lv_cell) ==
    ~Falsy(lv_cell) /\ Upper(Strip(Str(lv_cell))) # <<"A">>

\* the level test of the EPP extractor: only rows marked A are dropped
EppLevelPasses(lv_cell) ==
    ~(~Falsy(lv_cell) /\ Upper(Strip(Str(lv_cell))) = <<"A">>)

EppSkipDescriptions ==
    {<<"C","O","M","P","O","N","E","N","T"," ","O","F"," ","E","N","D"," ","I","T","E","M">>, <<"B","A","S","I","C"," ","I","S","S","U","E"," ","I","T","E","M","S">>, <<"O","P","E","R","A","T","I","O","N","A","L"," ","S","U","P","P","O","R","T">>,
     <<"C","O","E","I">>, <<"B","I","I">>}

\* the column the EPP extractor reads the quantity from
EppQuantityIndex(indices) == indices.auth_qty

EppRowItem(indices, row) ==
    LET description == clean_description(CellAt(row, indices.description))
        nsn == IF indices.material # <<>> /\ indices.material[1] < Len(row)
               THEN extract_nsn_from_material(CellAt(row, indices.material))
               ELSE <<>>
        qty == IF /\ EppQuantityIndex(indices) # <<>>
                  /\ EppQuantityIndex(indices)[1] < Len(row)
               THEN extract_quantity(CellAt(row, EppQuantityIndex(indices)))
               ELSE 1
    IN  IF ~HasContent(row) THEN <<>>
        ELSE IF indices.lv # <<>> /\ ~EppLevelPasses(CellAt(row, indices.lv))
        THEN <<>>
        ELSE IF description = <<>> THEN <<>>
        ELSE IF Upper(description) \in EppSkipDescriptions THEN <<>>
        ELSE <<[description |-> Prefix(description, MAX_DESCRIPTION),
                nsn |-> nsn, qty |-> qty]>>

RECURSIVE EppAppendRows(_, _, _, _)
EppAppendRows(indices, table, k, items) ==
    IF k > Len(table) THEN items
    ELSE LET got == EppRowItem(indices, table[k])
         IN  EppAppendRows(indices, table, k + 1,
                IF got = <<>> THEN items
                ELSE Append(items, BomItem(Len(items) + 1, got[1].description,
                                           got[1].nsn, got[1].qty)))

RECURSIVE EppAppendTables(_, _, _)
EppAppendTables(tables, t, items) ==
    IF t > Len(tables) THEN items
    ELSE IF Len(tables[t]) < 2 \/ EppIndices(tables[t][1]).description = <<>>
    THEN EppAppendTables(tables, t + 1, items)
    ELSE EppAppendTables(tables, t + 1,
            EppAppendRows(EppIndices(tables[t][1]), tables[t], 2, items))

\* page_text is not read by the source
extract_items_epp_format(tables, page_text) == EppAppendTables(tables, 1, <<>>)

-----------------------------------------------------------------------------
(* Tables the extractors are applied to: a header row and up to MaxRows    *)
(* data rows.                                                               *)

MaxRows == 2

StandardHeader == <<<<"M","a","t","e","r","i","a","l">>, <<"L","V">>, <<"D","e","s","c","r","i","p","t","i","o","n">>, <<"A","u","t","h","\n","Q","t","y">>>>

EppHeader == <<<<"M","a","t","e","r","i","a","l">>, <<"D","e","s","c","r","i","p","t","i","o","n">>, <<"A","u","t","h"," ","Q","t","y">>, <<"O","H"," ","Q","t","y">>>>

SharedColumnHeader == <<<<"I","t","e","m">>, <<"L","V"," ","D","e","s","c","r">>>>

Headers == {StandardHeader, EppHeader, SharedColumnHeader}

DataRows ==
    { <<<<"0","0","2","6","4","3","7","9","6">>, <<"B">>, <<"C","H","A","I","N"," ","A","S","S","E","M","B","L","Y">>, <<"2">>>>,
      <<<<"6","5","4","5","-","0","0","-","9","2","2","-","1","2","0","0">>, <<"A">>, <<"T","O","O","L"," ","K","I","T">>, <<"1">>>>,
      <<None, <<" ","b"," ">>, <<"a","b","\n","W","R","E","N","C","H"," "," ","S","E","T"," ","/">>, None>>,
      <<<<"x">>, <<"B">>, <<"A","B">>, <<"3">>>>,
      <<<<>>, <<"B">>, <<"B","I","I","-","t","o","o","l","s">>, <<"1">>>>,
      <<None, None, None, None>>,
      <<<<"1">>, <<"B">>>>,
      <<<<>>, <<"C">>, <<"P","U","M","P","\n","P","U","M","P"," ","U","N","I","T"," ","(","9","K",")"," ","E","A">>, <<"0"," ","E","A">>>>,
      <<<<>>, <<>>, <<"H","O","S","E"," ","e","a">>, <<"1","2">>>>,
      <<<<"0","0","2","6","4","3","7","9","6","\n","C","_","1","9","2","0","7">>, <<"B","a","s","i","c"," ","I","s","s","u","e"," ","I","t","e","m","s","\n","C","O","E","I">>, <<"4"," ","E","A">>, <<"0">>>>,
      <<<<"5">>, <<"B">>, <<"G","A","S","K","E","T">>, <<"0">>>>,
      <<<<>>, <<"B">>, <<"B","I","I">>, <<"1">>>>,
      <<<<"5">>, <<"G","A","S","K","E","T">>, <<"2">>, <<"0">>>> }

RECURSIVE RowLists(_)
RowLists(n) ==
    IF n = 0 THEN {<<>>}
    ELSE RowLists(n - 1) \cup {Append(rs, r) : rs \in RowLists(n - 1), r \in DataRows}

Tables == {<<h>> \o rs : h \in Headers, rs \in RowLists(MaxRows)}

-----------------------------------------------------------------------------
(* extract_items_from_pdf.  A document either fails to open or has pages;  *)
(* a page has its tables and text, or reading it (extract_tables,          *)
(* extract_text) raises.                                                   *)

NewResult ==
    [items |-> <<>>, metadata |-> [bom_format |-> UNKNOWN], warnings |-> <<>>,
     errors |-> <<>>, pages_processed |-> 0, format_detected |-> UNKNOWN]

StartPageError == "Start page exceeds document length"

ProcessError == "Failed to process PDF"

NoItemsWarning == "No items extracted. Ensure the PDF is a GCSS-Army BOM format."

\* the exception leaves extract_items_from_pdf
Propagate(res) == [result |-> res, raised |-> TRUE]

\* the items of the pages read before the failure are handed over
KeepPartialItems(res) ==
    [result |-> [res EXCEPT !.errors = Append(@, ProcessError),
                            !.items = all_items],
     raised |-> FALSE]

\* except Exception as e: result.errors.append(...)
OnException(res) ==
    [result |-> [res EXCEPT !.errors = Append(@, ProcessError)], raised |-> FALSE]

\* pdf.pages[i] exists (a negative i counts from the end)
ValidIndex(n, i) == -n <= i /\ i < n

\* the 1-based position of pdf.pages[i]
Position(n, i) == IF i < 0 THEN n + i + 1 ELSE i + 1

\* the 1-based position of the first page of pdf.pages[start:]
SliceStart(n, start) ==
    IF start < 0 THEN (IF n + start < 0 THEN 1 ELSE n + start + 1)
    ELSE IF start > n THEN n + 1 ELSE start + 1

\* the EPP extractor is tried before the standard one
EppFirstFallback(tables, page_text) ==
    IF extract_items_epp_format(tables, page_text) # <<>>
    THEN extract_items_epp_format(tables, page_text)
    ELSE extract_items_gcss_standard(tables)

\* the else branch: the standard extractor, and the EPP one if it found nothing
FallbackItems(tables, page_text) ==
    IF extract_items_gcss_standard(tables) # <<>>
    THEN extract_items_gcss_standard(tables)
    ELSE extract_items_epp_format(tables, page_text)

PageItems(format, tables, page_text) ==
    IF format = GCSS_ARMY_STANDARD THEN extract_items_gcss_standard(tables)
    ELSE IF format = EPP_FORMAT THEN extract_items_epp_format(tables, page_text)
    ELSE FallbackItems(tables, page_text)

\* the items keep the numbers their pages gave them
KeepNumbers(items) == items

\* for i, item in enumerate(all_items): item.line_no = i + 1
Renumber(items) == [i \in 1..Len(items) |-> [items[i] EXCEPT !.line_no = i]]

\* the missing items are reported as an error
NoItemsAsError(res) ==
    IF res.items = <<>>
    THEN [res EXCEPT !.errors = Append(@, NoItemsWarning)]
    ELSE res

\* if not result.items: result.warnings.append(...)
WarnIfNoItems(res) ==
    IF res.items = <<>>
    THEN [res EXCEPT !.warnings = Append(@, NoItemsWarning)]
    ELSE res

\* pdfplumber.open(pdf_path) raises
OpenFails ==
    /\ pc = "call"
    /\ ~pdf.opens
    /\ result' = OnException(result).result
    /\ raised' = OnException(result).raised
    /\ pc' = "returned"
    /\ UNCHANGED <<pdf, start_page, all_items, page_idx,
                 callVars, genVars>>

\* start_page >= len(pdf.pages): the error is recorded and the result returned
StartPageExceeds ==
    /\ pc = "call"
    /\ pdf.opens
    /\ start_page >= Len(pdf.pages)
    /\ result' = [result EXCEPT !.errors = Append(@, StartPageError)]
    /\ pc' = "returned"
    /\ UNCHANGED <<pdf, start_page, all_items, page_idx, raised,
                 callVars, genVars>>

\* the first page is read and the format detected
DetectFormat ==
    /\ pc = "call"
    /\ pdf.opens
    /\ start_page < Len(pdf.pages)
    /\ ValidIndex(Len(pdf.pages), start_page)
    /\ LET first_page == pdf.pages[Position(Len(pdf.pages), start_page)]
       IN  /\ ~first_page.fails
           /\ LET f == detect_bom_format(first_page.tables, first_page.text)
              IN  result' = [result EXCEPT !.format_detected = f,
                                           !.metadata.bom_format = f]
    /\ all_items' = <<>>
    /\ page_idx' = SliceStart(Len(pdf.pages), start_page)
    /\ pc' = "pages"
    /\ UNCHANGED <<pdf, start_page, raised,
                 callVars, genVars>>

\* pdf.pages[start_page] does not exist, or reading the first page raises
DetectFails ==
    /\ pc = "call"
    /\ pdf.opens
    /\ start_page < Len(pdf.pages)
    /\ IF ValidIndex(Len(pdf.pages), start_page)
       THEN pdf.pages[Position(Len(pdf.pages), start_page)].fails
       ELSE TRUE
    /\ result' = OnException(result).result
    /\ raised' = OnException(result).raised
    /\ pc' = "returned"
    /\ UNCHANGED <<pdf, start_page, all_items, page_idx,
                 callVars, genVars>>

\* one turn of the page loop
ExtractPage ==
    /\ pc = "pages"
    /\ page_idx <= Len(pdf.pages)
    /\ ~pdf.pages[page_idx].fails
    /\ result' = [result EXCEPT !.pages_processed = @ + 1]
    /\ all_items' = all_items \o PageItems(result.format_detected,
                                          pdf.pages[page_idx].tables,
                                          pdf.pages[page_idx].text)
    /\ page_idx' = page_idx + 1
    /\ UNCHANGED <<pdf, start_page, pc, raised,
                 callVars, genVars>>

\* one turn of the page loop in which reading the page raises
ExtractPageFails ==
    /\ pc = "pages"
    /\ page_idx <= Len(pdf.pages)
    /\ pdf.pages[page_idx].fails
    /\ LET counted == [result EXCEPT !.pages_processed = @ + 1]
       IN  /\ result' = OnException(counted).result
           /\ raised' = OnException(counted).raised
    /\ pc' = "returned"
    /\ UNCHANGED <<pdf, start_page, all_items, page_idx,
                 callVars, genVars>>

\* after the loop: renumber, hand over the items, warn if there are none
Aggregate ==
    /\ pc = "pages"
    /\ page_idx > Len(pdf.pages)
    /\ all_items' = Renumber(all_items)
    /\ result' = WarnIfNoItems([result EXCEPT !.items = Renumber(all_items)])
    /\ pc' = "returned"
    /\ UNCHANGED <<pdf, start_page, page_idx, raised,
                 callVars, genVars>>

-----------------------------------------------------------------------------
(* Documents extract_items_from_pdf is applied to: one that does not open, *)
(* or up to MaxPages pages, each one of PageKinds.                          *)

MaxPages == 3

ChainRow == <<<<"0","0","2","6","4","3","7","9","6">>, <<"B">>, <<"C","H","A","I","N"," ","A","S","S","E","M","B","L","Y">>, <<"2">>>>

ToolKitRow == <<<<"6","5","4","5","-","0","0","-","9","2","2","-","1","2","0","0">>, <<"A">>, <<"T","O","O","L"," ","K","I","T">>, <<"1">>>>

WrenchRow == <<None, <<" ","b"," ">>, <<"a","b","\n","W","R","E","N","C","H"," "," ","S","E","T"," ","/">>, None>>

ListingPage ==
    [text |-> <<"C","o","m","p","o","n","e","n","t"," ","L","i","s","t","i","n","g","\n","A","u","t","h"," ","Q","t","y">>,
     tables |-> << <<StandardHeader, ChainRow, ToolKitRow, WrenchRow>> >>,
     fails |-> FALSE]

ContinuationPage ==
    [text |-> <<"p","a","g","e"," ","2">>,
     tables |-> << <<StandardHeader, WrenchRow>>,
                   <<StandardHeader, ToolKitRow, ChainRow>> >>,
     fails |-> FALSE]

\* no marker in the text, no MATERIAL header: both extractors find items
UnmarkedPage ==
    [text |-> <<>>,
     tables |-> << << <<<<"L","V">>, <<"D","e","s","c","r">>, <<"A","u","t","h"," ","Q","t","y">>>>,
                      <<<<"B">>, <<"C","H","A","I","N"," ","A","S","S","E","M","B","L","Y">>, <<"2">>>>,
                      <<<<"C">>, <<"a","b","\n","P","U","M","P"," ","U","N","I","T">>, <<"1">>>> >> >>,
     fails |-> FALSE]

\* no marker, no row of level B: only the EPP extractor finds an item
UnmarkedLevelCPage ==
    [text |-> <<>>,
     tables |-> << << <<<<"L","V">>, <<"D","e","s","c","r">>>>, <<<<"C">>, <<"H","O","S","E"," ","e","a">>>> >> >>,
     fails |-> FALSE]

EmptyPage == [text |-> <<>>, tables |-> <<>>, fails |-> FALSE]

EppPage ==
    [text |-> <<"P","W","R"," ","P","L","A","N","T">>,
     tables |-> << <<EppHeader,
                     <<<<"0","0","2","6","4","3","7","9","6","\n","C","_","1","9","2","0","7">>, <<"P","U","M","P","\n","P","U","M","P"," ","U","N","I","T"," ","(","9","K",")"," ","E","A">>,
                       <<"2">>, <<"0">>>> >> >>,
     fails |-> FALSE]

\* a page whose extract_tables / extract_text raises
FailingPage == [text |-> <<>>, tables |-> <<>>, fails |-> TRUE]

PageKinds ==
    {ListingPage, ContinuationPage, UnmarkedPage, UnmarkedLevelCPage, EmptyPage,
     EppPage, FailingPage}

RECURSIVE PageLists(_)
PageLists(n) ==
    IF n = 0 THEN {<<>>}
    ELSE PageLists(n - 1) \cup {Append(ps, p) : ps \in PageLists(n - 1), p \in PageKinds}

Documents ==
    {[opens |-> FALSE, pages |-> <<>>]}
        \cup {[opens |-> TRUE, pages |-> ps] : ps \in PageLists(MaxPages)}

StartPages == (-2)..MaxPages

NoDocument == [opens |-> FALSE, pages |-> <<>>]

-----------------------------------------------------------------------------
(* generate_dd1750_overlay and generate_dd1750_from_items.  An output page *)
(* is the template page with an overlay merged into it and its annotations.*)

ROWS_PER_PAGE == 18

MAX_DRAWN_DESCRIPTION == 55

PRINT_FLAG == 4

EDITABLE_FLAGS == 0

\* str() of a non-negative integer
RECURSIVE NatText(_)
NatText(n) ==
    IF n < 10 THEN <<DigitSeq[n + 1]>>
    ELSE NatText(n \div 10) \o <<DigitSeq[(n % 10) + 1]>>

\* str() of an integer
IntText(n) == IF n < 0 THEN <<"-">> \o NatText(-n) ELSE NatText(n)

NoOverlay == [page_number |-> <<>>, total_pages |-> <<>>, rows |-> <<>>]

\* the unmodified first page of the template
BlankTemplatePage == [overlay |-> NoOverlay, annots |-> <<>>]

\* the box number drawn is the row's position on the page
OverlayRowByPosition(i, item) ==
    [row |-> i,
     box |-> IntText(i + 1),
     description |-> IF Len(item.description) > MAX_DRAWN_DESCRIPTION
                     THEN Prefix(item.description, MAX_DRAWN_DESCRIPTION)
                     ELSE item.description,
     nsn_line |-> IF item.nsn # <<>> THEN <<"N","S","N",":"," ">> \o item.nsn ELSE <<>>,
     unit |-> <<"E","A">>,
     initial |-> IntText(item.qty),
     spares |-> <<"0">>,
     total |-> IntText(item.qty)]

\* what is drawn for the item at position i (0-based) of a page's items
OverlayRow(i, item) ==
    [row |-> i,
     box |-> IntText(item.line_no),
     description |-> IF Len(item.description) > MAX_DRAWN_DESCRIPTION
                     THEN Prefix(item.description, MAX_DRAWN_DESCRIPTION)
                     ELSE item.description,
     nsn_line |-> IF item.nsn # <<>> THEN <<"N","S","N",":"," ">> \o item.nsn ELSE <<>>,
     unit |-> <<"E","A">>,
     initial |-> IntText(item.qty),
     spares |-> <<"0">>,
     total |-> IntText(item.qty)]

\* the page is stamped with the box number of its first record
OverlayNumberedByBox(page_items, number, total, hdr) ==
    [page_number |-> IntText(page_items[1].line_no),
     total_pages |-> IntText(total),
     rows |-> [i \in 1..Len(page_items) |-> OverlayRow(i - 1, page_items[i])]]

\* header is not read by the source
generate_dd1750_overlay(page_items, number, total, hdr) ==
    [page_number |-> IntText(number),
     total_pages |-> IntText(total),
     rows |-> [i \in 1..Len(page_items) |-> OverlayRow(i - 1, page_items[i])]]

FloorDiv(n, d) == n \div d

\* math.ceil(n / d)
CeilDiv(n, d) == (n + d - 1) \div d

Min(a, b) == IF a < b THEN a ELSE b

\* every page but the first starts one record early
OverlappingSlice(list, page_num0) ==
    SubSeq(list, (IF page_num0 = 0 THEN 0 ELSE page_num0 * ROWS_PER_PAGE - 1) + 1,
           Min((page_num0 + 1) * ROWS_PER_PAGE, Len(list)))

\* items[start_idx:end_idx] for the 0-based page_num
PageSlice(list, page_num0) ==
    SubSeq(list, page_num0 * ROWS_PER_PAGE + 1,
           Min((page_num0 + 1) * ROWS_PER_PAGE, Len(list)))

FormFieldNames ==
    <<"packed_by", "no_boxes", "req_no", "order_no", "end_item", "date", "typed_name">>

\* the widget annotation of one field; /V and /DV are the empty string
FormField(name, hdr) ==
    [name |-> name, value |-> <<>>, default |-> <<>>,
     print_flag |-> PRINT_FLAG, field_flags |-> EDITABLE_FLAGS]

FormFields(hdr) == [k \in 1..Len(FormFieldNames) |-> FormField(FormFieldNames[k], hdr)]

NoReturn == [path |-> "none", count |-> 0]

\* the pages of an earlier call are still in the writer
UsedWriter == writer

\* PdfWriter(): a writer without pages
PdfWriter == <<>>

\* if not items: the blank template is written and (output_path, 0) returned
GenerateBlank ==
    /\ gpc = "call"
    /\ gen_items = <<>>
    /\ env.template_ok /\ env.write_ok
    /\ writer' = Append(PdfWriter, BlankTemplatePage)
    /\ output' = Append(PdfWriter, BlankTemplatePage)
    /\ gen_ret' = [path |-> "output_path", count |-> 0]
    /\ gpc' = "returned"
    /\ UNCHANGED <<gen_items, gen_header, env, total_pages, page_num,
                 callVars, extractVars>>

\* if not items: PdfReader(template_path) or the write raises
GenerateBlankFails ==
    /\ gpc = "call"
    /\ gen_items = <<>>
    /\ ~(env.template_ok /\ env.write_ok)
    /\ writer' = IF env.template_ok THEN <<BlankTemplatePage>> ELSE writer
    /\ gpc' = "raised"
    /\ UNCHANGED <<gen_items, gen_header, env, total_pages, page_num, output, gen_ret,
                 callVars, extractVars>>

\* total_pages = math.ceil(len(items) / ROWS_PER_PAGE); writer = PdfWriter()
BeginPages ==
    /\ gpc = "call"
    /\ gen_items # <<>>
    /\ total_pages' = CeilDiv(Len(gen_items), ROWS_PER_PAGE)
    /\ writer' = PdfWriter
    /\ page_num' = 0
    /\ gpc' = "pages"
    /\ UNCHANGED <<gen_items, gen_header, env, output, gen_ret,
                 callVars, extractVars>>

\* one turn of the page loop: slice, overlay, merge with the template, add
CompositePage ==
    /\ gpc = "pages"
    /\ page_num < total_pages
    /\ env.template_ok
    /\ writer' = Append(writer,
            [overlay |-> generate_dd1750_overlay(PageSlice(gen_items, page_num),
                                                 page_num + 1, total_pages, gen_header),
             annots |-> <<>>])
    /\ page_num' = page_num + 1
    /\ UNCHANGED <<gen_items, gen_header, env, total_pages, gpc, output, gen_ret,
                 callVars, extractVars>>

\* one turn of the page loop in which PdfReader(template_path) raises
CompositePageFails ==
    /\ gpc = "pages"
    /\ page_num < total_pages
    /\ ~env.template_ok
    /\ gpc' = "raised"
    /\ UNCHANGED <<gen_items, gen_header, env, total_pages, page_num, writer, output, gen_ret,
                 callVars, extractVars>>

\* after the loop: the form fields are attached to writer.pages[0]
\* (an IndexError if the writer holds no page)
AttachFields ==
    /\ gpc = "pages"
    /\ page_num >= total_pages
    /\ IF writer = <<>>
       THEN /\ writer' = writer
            /\ gpc' = "raised"
       ELSE /\ writer' = [writer EXCEPT ![1].annots = @ \o FormFields(gen_header)]
            /\ gpc' = "fields"
    /\ UNCHANGED <<gen_items, gen_header, env, total_pages, page_num, output, gen_ret,
                 callVars, extractVars>>

\* the document is written and (output_path, len(items)) returned
WriteOutput ==
    /\ gpc = "fields"
    /\ env.write_ok
    /\ output' = writer
    /\ gen_ret' = [path |-> "output_path", count |-> Len(gen_items)]
    /\ gpc' = "returned"
    /\ UNCHANGED <<gen_items, gen_header, env, total_pages, page_num, writer,
                 callVars, extractVars>>

\* open(output_path, 'wb') or writer.write raises
WriteFails ==
    /\ gpc = "fields"
    /\ ~env.write_ok
    /\ gpc' = "raised"
    /\ UNCHANGED <<gen_items, gen_header, env, total_pages, page_num, writer, output, gen_ret,
                 callVars, extractVars>>

-----------------------------------------------------------------------------
(* Specifications                                                          *)

ExtractIdle ==
    /\ pdf = NoDocument
    /\ start_page = 0
    /\ pc = "idle"
    /\ result = NewResult
    /\ all_items = <<>>
    /\ page_idx = 0
    /\ raised = FALSE

GenerateIdle ==
    /\ gen_items = <<>>
    /\ gen_header = <<>>
    /\ env = [template_ok |-> TRUE, write_ok |-> TRUE]
    /\ gpc = "idle"
    /\ total_pages = 0
    /\ page_num = 0
    /\ writer = <<>>
    /\ output = <<>>
    /\ gen_ret = NoReturn

NoCall == [fn |-> "none", arg |-> <<>>, ret |-> <<>>, first |-> <<>>, n |-> 0]

InitNsn ==
    /\ ExtractIdle
    /\ GenerateIdle
    /\ \E m \in MaterialCells :
        call = [fn |-> "extract_nsn_from_material", arg |-> m,
                ret |-> <<>>, first |-> <<>>, n |-> 0]

\* the caller applies the helper to a material cell
CallNsn ==
    /\ call.fn = "extract_nsn_from_material"
    /\ call.n = 0
    /\ LET r == extract_nsn_from_material(call.arg)
       IN  call' = [call EXCEPT !.ret = r, !.first = r, !.n = 1]
    /\ UNCHANGED <<extractVars, genVars>>

\* the helper is applied to the value it returned
RecallNsn ==
    /\ call.fn = "extract_nsn_from_material"
    /\ call.n = 1
    /\ call' = [call EXCEPT !.arg = call.ret,
                            !.ret = extract_nsn_from_material(call.ret),
                            !.n = 2]
    /\ UNCHANGED <<extractVars, genVars>>

NextNsn == CallNsn \/ RecallNsn

SpecNsn == InitNsn /\ [][NextNsn]_vars

InitDetect ==
    /\ ExtractIdle
    /\ GenerateIdle
    /\ \E t \in DetectTables, x \in PageTexts :
        call = [fn |-> "detect_bom_format",
                arg |-> [tables |-> t, page_text |-> x],
                ret |-> <<>>, first |-> <<>>, n |-> 0]

\* the orchestrator classifies the page
CallDetect ==
    /\ call.fn = "detect_bom_format"
    /\ call.n = 0
    /\ LET r == detect_bom_format(call.arg.tables, call.arg.page_text)
       IN  call' = [call EXCEPT !.ret = r, !.first = r, !.n = 1]
    /\ UNCHANGED <<extractVars, genVars>>

NextDetect == CallDetect

SpecDetect == InitDetect /\ [][NextDetect]_vars

InitExtract ==
    /\ ExtractIdle
    /\ GenerateIdle
    /\ \E t \in Tables, f \in {"extract_items_gcss_standard", "extract_items_epp_format"} :
        call = [fn |-> f, arg |-> <<t>>, ret |-> <<>>, first |-> <<>>, n |-> 0]

\* the orchestrator runs the standard extractor on a page's tables
CallStandard ==
    /\ call.fn = "extract_items_gcss_standard"
    /\ call.n = 0
    /\ LET r == extract_items_gcss_standard(call.arg)
       IN  call' = [call EXCEPT !.ret = r, !.first = r, !.n = 1]
    /\ UNCHANGED <<extractVars, genVars>>

\* the orchestrator runs the EPP extractor on a page's tables
CallEpp ==
    /\ call.fn = "extract_items_epp_format"
    /\ call.n = 0
    /\ LET r == extract_items_epp_format(call.arg, <<>>)
       IN  call' = [call EXCEPT !.ret = r, !.first = r, !.n = 1]
    /\ UNCHANGED <<extractVars, genVars>>

NextExtract == CallStandard \/ CallEpp

SpecExtract == InitExtract /\ [][NextExtract]_vars

\* extract_items_from_pdf is called on a document with a start page
Init ==
    /\ call = NoCall
    /\ GenerateIdle
    /\ pdf \in Documents
    /\ start_page \in StartPages
    /\ pc = "call"
    /\ result = NewResult
    /\ all_items = <<>>
    /\ page_idx = 0
    /\ raised = FALSE

Next ==
    \/ OpenFails
    \/ StartPageExceeds
    \/ DetectFormat
    \/ DetectFails
    \/ ExtractPage
    \/ ExtractPageFails
    \/ Aggregate

Spec == Init /\ [][Next]_vars

MaxItems == 37

LongDescription == [k \in 1..60 |-> IF k % 7 = 0 THEN " " ELSE "X"]

\* the item at position i (1-based) of a caller's list of n items
CallerItem(i, n, numbering) ==
    BomItem(IF numbering = "position" THEN i ELSE n - i + 1,
            IF i % 5 = 0 THEN LongDescription ELSE <<"I","T","E","M"," ">> \o NatText(i),
            IF i % 2 = 0 THEN <<"0","0","2","6","4","3","7","9","6">> ELSE <<>>,
            1 + (i % 3))

CallerItems(n, numbering) == [i \in 1..n |-> CallerItem(i, n, numbering)]

SomeHeader ==
    [packed_by |-> <<"S","G","T"," ","D","O","E">>, num_boxes |-> <<"2">>, requisition_no |-> <<"R","1">>,
     order_no |-> <<"O","1">>, end_item |-> <<"T","R","U","C","K">>, date |-> <<"2","0","2","4","-","0","1","-","0","1">>]

\* generate_dd1750_from_items is called on a caller's item list
InitGen ==
    /\ call = NoCall
    /\ ExtractIdle
    /\ \E n \in 0..MaxItems, numbering \in {"position", "reversed"} :
          gen_items = CallerItems(n, numbering)
    /\ gen_header \in {<<>>, <<SomeHeader>>}
    /\ env \in [template_ok : BOOLEAN, write_ok : BOOLEAN]
    /\ gpc = "call"
    /\ total_pages = 0
    /\ page_num = 0
    /\ writer = <<>>
    /\ output = <<>>
    /\ gen_ret = NoReturn

NextGen ==
    \/ GenerateBlank
    \/ GenerateBlankFails
    \/ BeginPages
    \/ CompositePage
    \/ CompositePageFails
    \/ AttachFields
    \/ WriteOutput
    \/ WriteFails

SpecGen == InitGen /\ [][NextGen]_vars

\* Quantity cells extract_quantity is applied to: None, or up to MaxTokens
\* pieces of quantity-column text put end to end.
QuantityTokens ==
    { <<" "," ">>, <<"1","2">>, <<" ","E","A">>, <<"0">>, <<"7">>, <<"x">>, <<"\n">> }

RECURSIVE QuantityTexts(_)
QuantityTexts(n) ==
    IF n = 0 THEN {<<>>}
    ELSE QuantityTexts(n - 1)
            \cup {t \o w : t \in QuantityTexts(n - 1), w \in QuantityTokens}

QuantityCells == {None} \cup QuantityTexts(MaxTokens)

InitQty ==
    /\ ExtractIdle
    /\ GenerateIdle
    /\ \E q \in QuantityCells :
        call = [fn |-> "extract_quantity", arg |-> q,
                ret |-> <<>>, first |-> <<>>, n |-> 0]

\* an extractor applies the helper to a quantity cell
CallQty ==
    /\ call.fn = "extract_quantity"
    /\ call.n = 0
    /\ LET r == <<extract_quantity(call.arg)>>
       IN  call' = [call EXCEPT !.ret = r, !.first = r, !.n = 1]
    /\ UNCHANGED <<extractVars, genVars>>

NextQty == CallQty

SpecQty == InitQty /\ [][NextQty]_vars

\* generate_dd1750_from_pdf: extract_items_from_pdf, then
\* generate_dd1750_from_items on result.items with no header; an exception
\* is caught, a blank template attempted, and (output_path, 0) returned.

\* row k of the 25-row listing: level A at the positions in levelA, else B
ListingRow(k, levelA) ==
    << IF k % 2 = 0 THEN <<"0","0","2","6","4","3","7","9","6">> ELSE <<>>,
       IF k \in levelA THEN <<"A">> ELSE <<"B">>,
       <<"P","A","R","T"," ">> \o NatText(k),
       NatText(1 + (k % 4)) >>

\* a Component Listing page with one table of 25 data rows
LongListingPage(levelA) ==
    [text |-> <<"C","o","m","p","o","n","e","n","t"," ","L","i","s","t","i","n","g">>,
     tables |-> << <<StandardHeader>> \o [k \in 1..25 |-> ListingRow(k, levelA)] >>,
     fails |-> FALSE]

\* where the five rows of level A are
LevelAPositions ==
    { {1, 6, 11, 16, 21}, {5, 10, 15, 20, 25}, {2, 4, 6, 8, 10},
      {1, 2, 3, 4, 5}, {21, 22, 23, 24, 25}, {17, 18, 19, 20, 21} }

LongListings ==
    {[opens |-> TRUE, pages |-> <<LongListingPage(levelA)>>] : levelA \in LevelAPositions}

MaxPdfPages == 2

PdfPageKinds == {ListingPage, UnmarkedLevelCPage, EmptyPage, EppPage, FailingPage}

\* the documents generate_dd1750_from_pdf is applied to: one that does not
\* open, up to MaxPdfPages pages of PdfPageKinds, or a 25-row listing
PdfDocuments ==
    {NoDocument}
        \cup {[opens |-> TRUE, pages |-> ps] :
                 ps \in {l \in PageLists(MaxPdfPages) :
                            \A i \in 1..Len(l) : l[i] \in PdfPageKinds}}
        \cup LongListings

PdfStartPages == (-1)..1

InitPdf ==
    /\ call = [fn |-> "generate_dd1750_from_pdf", arg |-> <<>>, ret |-> <<>>,
               first |-> <<>>, n |-> 0, raised |-> FALSE]
    /\ pdf \in PdfDocuments
    /\ start_page \in PdfStartPages
    /\ pc = "call"
    /\ result = NewResult
    /\ all_items = <<>>
    /\ page_idx = 0
    /\ raised = FALSE
    /\ gen_items = <<>>
    /\ gen_header = <<>>
    /\ env \in [template_ok : BOOLEAN, write_ok : BOOLEAN]
    /\ gpc = "idle"
    /\ total_pages = 0
    /\ page_num = 0
    /\ writer = <<>>
    /\ output = <<>>
    /\ gen_ret = NoReturn

\* return generate_dd1750_from_items(result.items, template_path, output_path):
\* the call
PdfGenerate ==
    /\ call.fn = "generate_dd1750_from_pdf"
    /\ call.n = 0
    /\ pc = "returned"
    /\ gen_items' = result.items
    /\ gen_header' = <<>>
    /\ gpc' = "call"
    /\ call' = [call EXCEPT !.n = 1]
    /\ UNCHANGED <<env, total_pages, page_num, writer, output, gen_ret, extractVars>>

\* return generate_dd1750_from_items(...): its value is returned
PdfReturn ==
    /\ call.fn = "generate_dd1750_from_pdf"
    /\ call.n = 1
    /\ gpc = "returned"
    /\ call' = [call EXCEPT !.ret = <<gen_ret>>, !.n = 2]
    /\ UNCHANGED <<extractVars, genVars>>

\* except Exception: the blank template is written if that works, and
\* (output_path, 0) is returned
PdfRecover ==
    /\ call.fn = "generate_dd1750_from_pdf"
    /\ call.n = 1
    /\ gpc = "raised"
    /\ writer' = IF env.template_ok THEN <<BlankTemplatePage>> ELSE writer
    /\ output' = IF env.template_ok /\ env.write_ok THEN <<BlankTemplatePage>> ELSE output
    /\ call' = [call EXCEPT !.ret = <<[path |-> "output_path", count |-> 0]>>, !.n = 2]
    /\ UNCHANGED <<gen_items, gen_header, env, gpc, total_pages, page_num, gen_ret,
                 extractVars>>

NextPdf ==
    \/ OpenFails
    \/ StartPageExceeds
    \/ DetectFormat
    \/ DetectFails
    \/ ExtractPage
    \/ ExtractPageFails
    \/ Aggregate
    \/ PdfGenerate
    \/ GenerateBlank
    \/ GenerateBlankFails
    \/ BeginPages
    \/ CompositePage
    \/ CompositePageFails
    \/ AttachFields
    \/ WriteOutput
    \/ WriteFails
    \/ PdfReturn
    \/ PdfRecover

SpecPdf == InitPdf /\ [][NextPdf]_vars

\* Two calls of generate_dd1750_from_items on the same items and header, with
\* a call of extract_items_from_pdf running at any time before, between or
\* during them.

RoundDocuments ==
    { NoDocument,
      [opens |-> TRUE, pages |-> <<ListingPage>>],
      [opens |-> TRUE, pages |-> <<FailingPage>>],
      [opens |-> TRUE, pages |-> <<ListingPage, FailingPage>>] }

\* the lengths of the item lists: none, one, a full page, one more, the most
RoundSizes == {0, 1, ROWS_PER_PAGE, ROWS_PER_PAGE + 1, MaxItems}

InitRound ==
    /\ call = [fn |-> "generate_dd1750_from_items", arg |-> <<>>, ret |-> <<>>,
               first |-> <<>>, n |-> 0]
    /\ pdf \in RoundDocuments
    /\ start_page \in 0..1
    /\ pc = "call"
    /\ result = NewResult
    /\ all_items = <<>>
    /\ page_idx = 0
    /\ raised = FALSE
    /\ \E n \in RoundSizes, numbering \in {"position", "reversed"} :
          gen_items = CallerItems(n, numbering)
    /\ gen_header \in {<<>>, <<SomeHeader>>}
    /\ env \in [template_ok : BOOLEAN, write_ok : BOOLEAN]
    /\ gpc = "call"
    /\ total_pages = 0
    /\ page_num = 0
    /\ writer = <<>>
    /\ output = <<>>
    /\ gen_ret = NoReturn

\* the first call has ended; generate_dd1750_from_items is called again with
\* the same arguments.  Its locals and the file at output_path are as the
\* first call left them.
GenerateAgain ==
    /\ call.fn = "generate_dd1750_from_items"
    /\ call.n = 0
    /\ gpc \in {"returned", "raised"}
    /\ call' = [call EXCEPT !.first = <<[output |-> output, ret |-> gen_ret,
                                         ended |-> gpc]>>,
                            !.n = 1]
    /\ gpc' = "call"
    /\ gen_ret' = NoReturn
    /\ UNCHANGED <<gen_items, gen_header, env, total_pages, page_num, writer, output,
                 extractVars>>

NextRound ==
    \/ GenerateBlank
    \/ GenerateBlankFails
    \/ BeginPages
    \/ CompositePage
    \/ CompositePageFails
    \/ AttachFields
    \/ WriteOutput
    \/ WriteFails
    \/ GenerateAgain
    \/ OpenFails
    \/ StartPageExceeds
    \/ DetectFormat
    \/ DetectFails
    \/ ExtractPage
    \/ ExtractPageFails
    \/ Aggregate

SpecRound == InitRound /\ [][NextRound]_vars

-----------------------------------------------------------------------------
(* Claims                                                                  *)

IsNiin(s) == Len(s) = 9 /\ \A i \in 1..9 : s[i] \in Digits

\* position p of text is outside the text or holds no word character
Delimits(text, p) == p < 1 \/ p > Len(text) \/ ~IsWordChar(text[p])

\* a run of exactly nine digits standing alone as a token
HasStandaloneNiin(text) ==
    \E p \in 1..Len(text) :
        /\ Delimits(text, p - 1)
        /\ p + 8 <= Len(text)
        /\ \A k \in p..(p + 8) : text[k] \in Digits
        /\ Delimits(text, p + 9)

\* a 4-2-3-4 hyphenated identifier starts at p
HyphenatedAt(text, p) ==
    /\ Delimits(text, p - 1)
    /\ p + 15 <= Len(text)
    /\ \A k \in 0..15 :
          IF k \in {4, 7, 11} THEN text[p + k] = "-"
          ELSE text[p + k] \in Digits
    /\ Delimits(text, p + 16)

HyphenatedStarts(text) == {p \in 1..Len(text) : HyphenatedAt(text, p)}

\* the identifier's last three groups, hyphens dropped
LastThreeGroups(text, p) ==
    LET id == SubSeq(text, p, p + 15)
    IN  [i \in 1..9 |-> id[IF i <= 2 THEN i + 5 ELSE IF i <= 5 THEN i + 6 ELSE i + 7]]

\* C10: extract_nsn_from_material returns, for every material cell (None and
\* the empty text included), either the empty text or exactly nine digits;
\* applied to its own result it returns that result again; a text with a
\* 4-2-3-4 hyphenated identifier and no standalone nine-digit token gives the
\* last three groups of the leftmost identifier; a text with neither gives
\* the empty text.
C10_NsnTotalIdempotent ==
    (call.fn = "extract_nsn_from_material" /\ call.n >= 1) =>
        /\ call.ret = <<>> \/ IsNiin(call.ret)
        /\ call.n = 2 => call.ret = call.first
        /\ call.n = 1 =>
              LET text == Str(call.arg)
              IN  /\ (HyphenatedStarts(text) # {} /\ ~HasStandaloneNiin(text))
                        => call.ret = LastThreeGroups(text, Least(HyphenatedStarts(text)))
                  /\ (HyphenatedStarts(text) = {} /\ ~HasStandaloneNiin(text))
                        => call.ret = <<>>

\* "6545-00-922-1200" gave "009221200", and so did the second application
C10_Witness ==
    /\ call.fn = "extract_nsn_from_material"
    /\ call.n = 2
    /\ call.first = <<"0","0","9","2","2","1","2","0","0">>
    /\ call.ret = call.first

\* the text of a header cell, upper-cased (an empty or missing cell has none)
CellUpper(cell) == Upper(Str(IF Falsy(cell) THEN <<>> ELSE cell))

\* some cell of the first row of some table carries the marker
HeaderHas(tables, marker) ==
    \E t \in 1..Len(tables) :
        /\ Len(tables[t]) >= 1
        /\ \E c \in 1..Len(tables[t][1]) :
              Contains(CellUpper(tables[t][1][c]), marker)

\* the first row of one and the same table carries both markers
HeaderHasBoth(tables, m1, m2) ==
    \E t \in 1..Len(tables) :
        /\ Len(tables[t]) >= 1
        /\ \E c \in 1..Len(tables[t][1]) :
              Contains(CellUpper(tables[t][1][c]), m1)
        /\ \E c \in 1..Len(tables[t][1]) :
              Contains(CellUpper(tables[t][1][c]), m2)

TextHas(page_text, marker) == Contains(Upper(page_text), marker)

ListingMarker(page_text) ==
    TextHas(page_text, <<"C","O","M","P","O","N","E","N","T"," ","L","I","S","T","I","N","G">>) \/ TextHas(page_text, <<"H","A","N","D"," ","R","E","C","E","I","P","T">>)

EppMarker(page_text) ==
    TextHas(page_text, <<"P","W","R"," ","P","L","A","N","T">>) \/ TextHas(page_text, <<"O","P","E","R","A","T","I","O","N","A","L"," ","S","U","P","P","O","R","T">>)

LvMarker(tables) == HeaderHas(tables, <<"L","V">>) \/ HeaderHas(tables, <<"L","E","V","E","L">>)

\* the five rules in their order; rule (2) is read, as in section 4.1, as the
\* second half of the listing branch (a listing marker, no LV header, AUTH and QTY)
RuleOutcome(tables, page_text) ==
    IF ListingMarker(page_text) /\ LvMarker(tables) THEN GCSS_ARMY_STANDARD
    ELSE IF /\ ListingMarker(page_text)
            /\ TextHas(page_text, <<"A","U","T","H">>)
            /\ TextHas(page_text, <<"Q","T","Y">>) THEN GCSS_ARMY_STANDARD
    ELSE IF EppMarker(page_text) THEN EPP_FORMAT
    ELSE IF HeaderHasBoth(tables, <<"M","A","T","E","R","I","A","L">>, <<"D","E","S","C","R","I","P","T","I","O","N">>) THEN GCSS_ARMY_STANDARD
    ELSE UNKNOWN

DataRowsOf(tables) == 2..Len(tables[1])

\* the level value of a data row of a table with a level column at index lv
LevelValue(row, lv) ==
    IF lv[1] < Len(row) /\ ~Falsy(row[lv[1] + 1])
    THEN Upper(Strip(Str(row[lv[1] + 1])))
    ELSE <<>>

\* the description cell of a row, '' when missing
DescriptionCell(row, d) ==
    IF d[1] < Len(row) /\ ~Falsy(row[d[1] + 1]) THEN Str(row[d[1] + 1]) ELSE <<>>

\* the description the standard extractor gives an item of this row
StdItemDescription(row, d) == StdDescription(DescriptionCell(row, d))

HasCategoryPhrase(description) ==
    \E pat \in StdSkipPatterns : Contains(Upper(description), pat)

CountItems(items, description) ==
    Cardinality({i \in 1..Len(items) : items[i].description = description})

\* the level column and the description column of the table are resolved
StdResolved(tables) ==
    /\ find_column_indices(tables[1][1]).lv # <<>>
    /\ find_column_indices(tables[1][1]).description # <<>>

\* no item comes from a data row whose level value is A: the items are no
\* more than the rows with another level value, and none has the
\* description of a row marked A (in DataRows no other row shares it)
NoLevelARowEmitted(tables, items) ==
    LET lv == find_column_indices(tables[1][1]).lv
        d  == find_column_indices(tables[1][1]).description
    IN  /\ Len(items) <= Cardinality({k \in DataRowsOf(tables) :
                                LevelValue(tables[1][k], lv) # <<"A">>})
        /\ \A k \in DataRowsOf(tables) :
              (LevelValue(tables[1][k], lv) = <<"A">>
                    /\ Len(StdItemDescription(tables[1][k], d)) >= 3)
                => CountItems(items, StdItemDescription(tables[1][k], d)) = 0

\* C6 as stated: in a table with a resolved level and description column no
\* row of level A is emitted, and every row of level B with a non-empty
\* description is emitted (the items are at least as many as those rows).
C6_Original ==
    (call.fn = "extract_items_gcss_standard" /\ call.n = 1 /\ StdResolved(call.arg)) =>
        LET lv == find_column_indices(call.arg[1][1]).lv
            d  == find_column_indices(call.arg[1][1]).description
        IN  /\ NoLevelARowEmitted(call.arg, call.ret)
            /\ Len(call.ret) >= Cardinality({k \in DataRowsOf(call.arg) :
                    /\ LevelValue(call.arg[1][k], lv) = <<"B">>
                    /\ Strip(DescriptionCell(call.arg[1][k], d)) # <<>>})

\* C6, amended: in a table with a resolved level and description column no
\* row of level A is emitted, and every row of level B whose extracted
\* description (the first line of at least three characters, whitespace
\* normalised, trailing slashes removed) has at least three characters and no
\* category phrase is emitted, with that description.
C6_LevelFilter ==
    (call.fn = "extract_items_gcss_standard" /\ call.n = 1 /\ StdResolved(call.arg)) =>
        LET lv == find_column_indices(call.arg[1][1]).lv
            d  == find_column_indices(call.arg[1][1]).description
            emitted(k) ==
                /\ LevelValue(call.arg[1][k], lv) = <<"B">>
                /\ Len(StdItemDescription(call.arg[1][k], d)) >= 3
                /\ ~HasCategoryPhrase(StdItemDescription(call.arg[1][k], d))
        IN  /\ NoLevelARowEmitted(call.arg, call.ret)
            /\ \A k \in DataRowsOf(call.arg) :
                  emitted(k) =>
                    CountItems(call.ret, StdItemDescription(call.arg[1][k], d))
                      >= Cardinality({j \in DataRowsOf(call.arg) :
                            /\ emitted(j)
                            /\ StdItemDescription(call.arg[1][j], d)
                                 = StdItemDescription(call.arg[1][k], d)})

\* a table with a row of level A and a row of level B went through the
\* standard extractor, which emitted one item, the B row's
C6_Witness ==
    /\ call.fn = "extract_items_gcss_standard"
    /\ call.n = 1
    /\ call.arg[1][1] = StandardHeader
    /\ Len(call.arg[1]) = 3
    /\ LevelValue(call.arg[1][2], <<1>>) = <<"A">>
    /\ LevelValue(call.arg[1][3], <<1>>) = <<"B">>
    /\ Len(call.ret) = 1
    /\ call.ret[1].description = <<"C","H","A","I","N"," ","A","S","S","E","M","B","L","Y">>

\* the document opened and pdf.pages[start_page] exists
StartInDocument ==
    /\ pdf.opens
    /\ start_page < Len(pdf.pages)
    /\ ValidIndex(Len(pdf.pages), start_page)

\* the positions of the pages from the start page to the document's end
PagesFromStart == SliceStart(Len(pdf.pages), start_page)..Len(pdf.pages)

\* the call went through every page from the start page on without a failure
RanToCompletion ==
    /\ StartInDocument
    /\ \A k \in PagesFromStart : ~pdf.pages[k].fails

\* the items without their numbers
Unnumbered(list) ==
    [i \in 1..Len(list) |->
        [description |-> list[i].description, nsn |-> list[i].nsn, qty |-> list[i].qty]]

\* the items the extractor of the given format finds on pages from..to, in page order
RECURSIVE ItemsOfPages(_, _, _)
ItemsOfPages(format, from, to) ==
    IF from > to THEN <<>>
    ELSE PageItems(format, pdf.pages[from].tables, pdf.pages[from].text)
            \o ItemsOfPages(format, from + 1, to)

\* C3: the items of the returned result are numbered 1..N in list order, and
\* the list is the pages' items in page order, each page's in its row order,
\* however many pages contributed.
C3_LineNumbersContiguous ==
    pc = "returned" =>
        /\ \A i \in 1..Len(result.items) : result.items[i].line_no = i
        /\ RanToCompletion =>
              Unnumbered(result.items)
                = Unnumbered(ItemsOfPages(result.format_detected,
                                          SliceStart(Len(pdf.pages), start_page),
                                          Len(pdf.pages)))

\* a listing page and a continuation page gave two items each; the last item,
\* numbered 2 on its page, is number 4
C3_Witness ==
    /\ pc = "returned"
    /\ pdf.pages = <<ListingPage, ContinuationPage>>
    /\ start_page = 0
    /\ Len(result.items) = 4
    /\ result.items[4].description = <<"C","H","A","I","N"," ","A","S","S","E","M","B","L","Y">>
    /\ result.items[4].line_no = 4

\* C4: no exception leaves extract_items_from_pdf; with start_page at or
\* beyond the page count the result has an error, no item and
\* pages_processed = 0; when the document cannot be opened, or reading a page
\* raises, the result has exactly one error, the caught exception's.
C4_NeverRaises ==
    /\ ~raised
    /\ (pc = "returned" /\ pdf.opens /\ start_page >= Len(pdf.pages)) =>
          /\ result.errors # <<>>
          /\ result.items = <<>>
          /\ result.pages_processed = 0
    /\ (pc = "returned" /\ ~pdf.opens) => result.errors = <<ProcessError>>
    /\ (pc = "returned" /\ StartInDocument /\ ~RanToCompletion) =>
          result.errors = <<ProcessError>>

\* a document that does not open gave a result with the one error
C4_Witness ==
    /\ pc = "returned"
    /\ ~pdf.opens
    /\ result.errors = <<ProcessError>>
    /\ result.items = <<>>

\* the items of the readable pages among pages from..to
RECURSIVE ItemsOfReadablePages(_, _, _)
ItemsOfReadablePages(format, from, to) ==
    IF from > to THEN <<>>
    ELSE (IF pdf.pages[from].fails THEN <<>>
          ELSE PageItems(format, pdf.pages[from].tables, pdf.pages[from].text))
            \o ItemsOfReadablePages(format, from + 1, to)

\* C5: a failure on one page does not stop the page loop: every page from
\* the start page to the end is visited and the items of the readable ones
\* are in the result.
C5_PageFailureDoesNotAbort ==
    (/\ pc = "returned"
     /\ StartInDocument
     /\ start_page >= 0
     /\ ~pdf.pages[Position(Len(pdf.pages), start_page)].fails) =>
        /\ result.pages_processed = Cardinality(PagesFromStart)
        /\ Unnumbered(result.items)
             = Unnumbered(ItemsOfReadablePages(result.format_detected,
                                               SliceStart(Len(pdf.pages), start_page),
                                               Len(pdf.pages)))

\* what a page contributes when the format is Unknown: the standard
\* extractor's items if there are any, else the EPP extractor's
UnknownContribution(page) ==
    LET std == extract_items_gcss_standard(page.tables)
        epp == extract_items_epp_format(page.tables, page.text)
    IN  IF std # <<>> THEN std ELSE IF epp # <<>> THEN epp ELSE std

RECURSIVE UnknownContributions(_, _)
UnknownContributions(from, to) ==
    IF from > to THEN <<>>
    ELSE UnknownContribution(pdf.pages[from]) \o UnknownContributions(from + 1, to)

\* C8: with the format Unknown every page contributes the standard
\* extractor's items when it finds any, else the EPP extractor's, else
\* nothing; and Unknown adds no error to the result.
C8_UnknownFallback ==
    /\ (pc = "pages" /\ result.format_detected = UNKNOWN) =>
          /\ all_items = UnknownContributions(SliceStart(Len(pdf.pages), start_page),
                                              page_idx - 1)
          /\ result.errors = <<>>
    /\ (pc = "returned" /\ result.format_detected = UNKNOWN /\ RanToCompletion) =>
          /\ Unnumbered(result.items)
                = Unnumbered(UnknownContributions(SliceStart(Len(pdf.pages), start_page),
                                                  Len(pdf.pages)))
          /\ result.errors = <<>>

\* an unmarked page with only a level-C row (the EPP extractor's item was
\* kept) and an unmarked page where both extractors find items (the standard
\* extractor's one item was kept)
C8_Witness ==
    /\ pc = "returned"
    /\ pdf.pages = <<UnmarkedLevelCPage, UnmarkedPage>>
    /\ start_page = 0
    /\ result.format_detected = UNKNOWN
    /\ Len(result.items) = 2
    /\ result.items[1].description = <<"H","O","S","E">>
    /\ result.items[2].description = <<"C","H","A","I","N"," ","A","S","S","E","M","B","L","Y">>
    /\ result.errors = <<>>

\* C9: when all pages from a start page in the document were processed, the
\* result has the 'no items' warning and no error if no item was extracted,
\* and no such warning if an item was.
C9_NoItemsWarning ==
    (pc = "returned" /\ RanToCompletion) =>
        /\ result.items = <<>> =>
              /\ InSeq(NoItemsWarning, result.warnings)
              /\ result.errors = <<>>
        /\ result.items # <<>> => ~InSeq(NoItemsWarning, result.warnings)

\* a document of one page without tables was processed: the warning, no error
C9_Witness ==
    /\ pc = "returned"
    /\ pdf.pages = <<EmptyPage>>
    /\ start_page = 0
    /\ result.items = <<>>
    /\ result.warnings = <<NoItemsWarning>>
    /\ result.errors = <<>>

\* the least number of pages of ROWS_PER_PAGE rows that hold n records
PagesNeeded(n) ==
    CHOOSE k \in 0..n :
        /\ k * ROWS_PER_PAGE >= n
        /\ k = 0 \/ (k - 1) * ROWS_PER_PAGE < n

\* the pages of the output that carry an overlay
CompositedPages == {p \in 1..Len(output) : output[p].overlay # NoOverlay}

\* C1: generate_dd1750_from_items lays N items out on ceil(N/18) pages; for
\* N >= 1 these are the pages of the output; there are no such pages only for
\* N = 0, and then the output is the unmodified blank template and the
\* returned item count is 0.
C1_PageCount ==
    gpc = "returned" =>
        /\ Cardinality(CompositedPages) = PagesNeeded(Len(gen_items))
        /\ gen_items # <<>> =>
              /\ Len(output) = PagesNeeded(Len(gen_items))
              /\ gen_ret.count = Len(gen_items)
        /\ CompositedPages = {} => gen_items = <<>>
        /\ gen_items = <<>> =>
              /\ output = <<BlankTemplatePage>>
              /\ gen_ret.count = 0

\* 19 items were laid out on 2 pages
C1_Witness ==
    /\ gpc = "returned"
    /\ Len(gen_items) = 19
    /\ Len(output) = 2
    /\ gen_ret.count = 19

\* the places (page, row), both 1-based, where a box number is drawn
PlacesOf(box) ==
    {pr \in (1..Len(output)) \X (1..ROWS_PER_PAGE) :
        /\ pr[2] <= Len(output[pr[1]].overlay.rows)
        /\ output[pr[1]].overlay.rows[pr[2]].box = box}

\* C2: record i (0-based) of the input is drawn on page floor(i/18) at row
\* i mod 18 and nowhere else, and no page holds more than 18 records.  (The
\* records of a caller's list are told apart by their line_no.)
C2_RecordPlacement ==
    gpc = "returned" =>
        /\ \A p \in 1..Len(output) : Len(output[p].overlay.rows) <= ROWS_PER_PAGE
        /\ \A i \in 0..(Len(gen_items) - 1) :
              /\ PlacesOf(IntText(gen_items[i + 1].line_no))
                    = {<<(i \div ROWS_PER_PAGE) + 1, (i % ROWS_PER_PAGE) + 1>>}
              /\ output[(i \div ROWS_PER_PAGE) + 1].overlay
                    .rows[(i % ROWS_PER_PAGE) + 1].row = i % ROWS_PER_PAGE

\* 37 items: the last one is alone on the third page, at row 0
C2_Witness ==
    /\ gpc = "returned"
    /\ Len(gen_items) = 37
    /\ Len(output) = 3
    /\ Len(output[3].overlay.rows) = 1
    /\ output[3].overlay.rows[1].box = IntText(gen_items[37].line_no)
    /\ output[3].overlay.rows[1].row = 0

-----------------------------------------------------------------------------
(* C11: extract_quantity                                                   *)

HasDigit(text) == \E p \in 1..Len(text) : text[p] \in Digits

\* the first maximal run of digits of the text, as <<start, end>>
FirstDigitRun(text) ==
    CHOOSE run \in (1..Len(text)) \X (1..Len(text)) :
        /\ run[1] <= run[2]
        /\ \A p \in 1..(run[1] - 1) : text[p] \notin Digits
        /\ \A p \in run[1]..run[2] : text[p] \in Digits
        /\ run[2] = Len(text) \/ text[run[2] + 1] \notin Digits

\* the number a run of digits writes, read from the left
RECURSIVE DecimalValue(_, _, _, _)
DecimalValue(text, p, q, acc) ==
    IF p > q THEN acc
    ELSE DecimalValue(text, p + 1, q,
            10 * acc + CHOOSE d \in 0..9 : DigitSeq[d + 1] = text[p])

\* C11: extract_quantity returns 1 for None, for the empty string and for
\* every text without a digit, and for every other cell the integer value of
\* the first run of digits in its text.
C11_QuantityFirstDigitRun ==
    (call.fn = "extract_quantity" /\ call.n = 1) =>
        IF call.arg = None \/ call.arg = <<>> \/ ~HasDigit(call.arg)
        THEN call.ret = <<1>>
        ELSE LET run == FirstDigitRun(call.arg)
             IN  call.ret = <<DecimalValue(call.arg, run[1], run[2], 0)>>

\* the helper has returned 12 for "  12 EA"
C11_Witness ==
    /\ call.fn = "extract_quantity"
    /\ call.n = 1
    /\ call.arg = <<" "," ","1","2"," ","E","A">>
    /\ call.ret = <<12>>

-----------------------------------------------------------------------------
(* C12: the quantity of an emitted item                                    *)

ExtractorReturned ==
    /\ call.fn \in {"extract_items_gcss_standard", "extract_items_epp_format"}
    /\ call.n = 1

\* C12: every item either per-format extractor emits has a quantity of at
\* least 1, whatever the quantity cell holds.
C12_QuantityPositive ==
    ExtractorReturned => \A i \in 1..Len(call.ret) : call.ret[i].qty >= 1

-----------------------------------------------------------------------------
(* C13: the form fields                                                    *)

\* the HeaderInfo attribute a form field stands for; typed_name has none
HeaderAttribute(name, h) ==
    CASE name = "packed_by" -> h.packed_by
      [] name = "no_boxes"  -> h.num_boxes
      [] name = "req_no"    -> h.requisition_no
      [] name = "order_no"  -> h.order_no
      [] name = "end_item"  -> h.end_item
      [] name = "date"      -> h.date
      [] OTHER              -> <<>>

FieldsAttached == gpc \in {"fields", "returned"} /\ gen_items # <<>>

\* the seven fields are on the first page and on no other page, each
\* editable and flagged to print
SevenFieldsOnFirstPage ==
    /\ Len(writer[1].annots) = Len(FormFieldNames)
    /\ \A k \in 1..Len(FormFieldNames) :
          /\ writer[1].annots[k].name = FormFieldNames[k]
          /\ writer[1].annots[k].field_flags = 0
          /\ writer[1].annots[k].print_flag = 4
    /\ \A p \in 2..Len(writer) : writer[p].annots = <<>>

\* C13: once the pages are composited the seven named text fields are on the
\* first output page only, each editable and flagged to print, and each
\* field's initial value is the caller's HeaderInfo value when a HeaderInfo
\* is given and blank otherwise.
C13_FieldsPrepopulated ==
    FieldsAttached =>
        /\ SevenFieldsOnFirstPage
        /\ \A k \in 1..Len(writer[1].annots) :
              writer[1].annots[k].value =
                 IF gen_header = <<>> THEN <<>>
                 ELSE HeaderAttribute(FormFieldNames[k], gen_header[1])

-----------------------------------------------------------------------------
(* C14: end to end                                                         *)

PdfReturned == call.fn = "generate_dd1750_from_pdf" /\ call.n = 2

\* the descriptions of the rows of level B of the 25-row listing, in order
RECURSIVE LevelBParts(_, _)
LevelBParts(k, levelA) ==
    IF k > 25 THEN <<>>
    ELSE (IF k \in levelA THEN <<>> ELSE << <<"P","A","R","T"," ">> \o NatText(k) >>)
            \o LevelBParts(k + 1, levelA)

\* C14: a single-table standard-format document with 25 data rows of which
\* 20 have level B and 5 level A gives exactly 20 items (the B rows, in
\* order) and 2 output pages holding 18 and 2 records; on every output page
\* k of T the page-number stamp is k and the total-pages stamp is T, whatever
\* the caller passed.
C14_EndToEnd ==
    (PdfReturned /\ gpc = "returned") =>
        /\ \A levelA \in LevelAPositions :
              (pdf.pages = <<LongListingPage(levelA)>> /\ result.errors = <<>>) =>
                 /\ Len(result.items) = 20
                 /\ [i \in 1..20 |-> result.items[i].description] = LevelBParts(1, levelA)
                 /\ call.ret[1].count = 20
                 /\ Len(output) = 2
                 /\ Len(output[1].overlay.rows) = 18
                 /\ Len(output[2].overlay.rows) = 2
                 /\ output[1].overlay.page_number = <<"1">>
                 /\ output[1].overlay.total_pages = <<"2">>
                 /\ output[2].overlay.page_number = <<"2">>
                 /\ output[2].overlay.total_pages = <<"2">>
        /\ gen_items # <<>> =>
              \A k \in 1..Len(output) :
                 /\ output[k].overlay.page_number = NatText(k)
                 /\ output[k].overlay.total_pages = NatText(Len(output))

\* a 25-row listing was read from its last page (start_page -1) and laid out
\* on two pages
C14_Witness ==
    /\ PdfReturned
    /\ pdf \in LongListings
    /\ start_page = -1
    /\ Len(result.items) = 20
    /\ Len(output) = 2
    /\ output[2].overlay.page_number = <<"2">>

-----------------------------------------------------------------------------
(* C15: failures of generation                                             *)

\* generate_dd1750_from_items was left by an exception
GenerationFailed == gpc = "raised"

\* C15: when the template cannot be read or the output cannot be written,
\* the exception that leaves generate_dd1750_from_items also leaves
\* generate_dd1750_from_pdf: the call does not end with a returned value.
C15_GenerationFailurePropagates ==
    (PdfReturned /\ GenerationFailed) => (call.raised /\ call.ret = <<>>)

-----------------------------------------------------------------------------
(* C16: the layout is deterministic and stateless                          *)

SecondCallEnded ==
    /\ call.fn = "generate_dd1750_from_items"
    /\ call.n = 1
    /\ gpc \in {"returned", "raised"}

\* what is drawn on the pages of a document: stamps and rows
Drawn(pages) == [p \in 1..Len(pages) |-> pages[p].overlay]

-----------------------------------------------------------------------------
(* C17: the level filters of the two extractors                            *)

\* the level value of a row is v; a table without a level column, a row too
\* short for it and an empty cell give no level value
HasLevel(header, row, v) ==
    LET lv == find_column_indices(header).lv
    IN  lv # <<>> /\ LevelValue(row, lv) = v

\* the values of rows k.. that are in kept, in row order
RECURSIVE KeptDescriptions(_, _, _)
KeptDescriptions(descriptions, kept, k) ==
    IF k \notin DOMAIN descriptions THEN <<>>
    ELSE (IF k \in kept THEN <<descriptions[k]>> ELSE <<>>)
            \o KeptDescriptions(descriptions, kept, k + 1)

Descriptions(items) == [i \in 1..Len(items) |-> items[i].description]

-----------------------------------------------------------------------------
(* C18: category-header phrases                                            *)

\* component of end item, basic issue items, and their abbreviations
CategoryPhrases ==
    { <<"C","O","M","P","O","N","E","N","T"," ","O","F"," ","E","N","D"," ","I","T","E","M">>, <<"B","A","S","I","C"," ","I","S","S","U","E"," ","I","T","E","M","S">>, <<"C","O","E","I">>, <<"B","I","I">> }

\* C18: no item either per-format extractor emits has a description that is,
\* letter case aside, one of the category-header phrases.
C18_NoCategoryItem ==
    ExtractorReturned =>
        \A i \in 1..Len(call.ret) : Upper(call.ret[i].description) \notin CategoryPhrases

-----------------------------------------------------------------------------
(* C19: the quantity column of the EPP extractor                           *)

\* the quantity in the row's OH Qty cell
OnHandQuantity(header, row) ==
    LET oh == find_column_indices(header).oh_qty
    IN  IF oh[1] < Len(row) THEN extract_quantity(CellAt(row, oh)) ELSE 1

\* C19: in a table with an OH Qty column every item the EPP extractor emits
\* comes from a row whose on-hand quantity is its quantity, and that
\* quantity is not 0.
C19_OnHandQuantity ==
    (/\ call.fn = "extract_items_epp_format"
     /\ call.n = 1
     /\ find_column_indices(call.arg[1][1]).oh_qty # <<>>
     /\ EppIndices(call.arg[1][1]).description # <<>>) =>
        LET table == call.arg[1]
            d     == EppIndices(table[1]).description
        IN  \A i \in 1..Len(call.ret) :
               \E k \in 2..Len(table) :
                  /\ call.ret[i].description = clean_description(CellAt(table[k], d))
                  /\ call.ret[i].qty = OnHandQuantity(table[1], table[k])
                  /\ call.ret[i].qty # 0

-----------------------------------------------------------------------------
(* C20: errors, warnings and items of a result                             *)

\* C20: in every returned result, if there is an error there are no items
\* (also when pages were processed before the failure), there is at most one
\* error, and warnings and errors are not both present.
C20_ErrorsExcludeItems ==
    pc = "returned" =>
        /\ result.errors # <<>> => result.items = <<>>
        /\ Len(result.errors) <= 1
        /\ ~(result.warnings # <<>> /\ result.errors # <<>>)

\* the first page gave items, the second failed: two pages were counted and
\* the result has one error and no item
C20_Witness ==
    /\ pc = "returned"
    /\ start_page = 0
    /\ Len(pdf.pages) >= 2
    /\ pdf.pages[1] = ListingPage
    /\ pdf.pages[2] = FailingPage
    /\ result.pages_processed = 2
    /\ Len(result.errors) = 1
    /\ result.items = <<>>
    /\ result.warnings = <<>>

-----------------------------------------------------------------------------
(* C21: the input of generate_dd1750_from_items                            *)

\* the rows drawn on pages p.. of the document, page after page
RECURSIVE RowsOfPages(_, _)
RowsOfPages(pages, p) ==
    IF p > Len(pages) THEN <<>>
    ELSE pages[p].overlay.rows \o RowsOfPages(pages, p + 1)

\* the output is the input cut into pages: the rows of all pages, in page
\* order, are the input's records one for one, each drawn with its own
\* line_no, description (at most 55 characters of it), stock number and
\* quantity; every page but the last has 18 rows, the last from 1 to 18
ExactPartition ==
    LET rows == RowsOfPages(output, 1)
    IN  /\ Len(rows) = Len(gen_items)
        /\ \A i \in 1..Len(gen_items) :
              /\ rows[i].box = IntText(gen_items[i].line_no)
              /\ rows[i].description
                    = SubSeq(gen_items[i].description, 1,
                             Min(Len(gen_items[i].description), 55))
              /\ rows[i].nsn_line
                    = (IF gen_items[i].nsn = <<>> THEN <<>>
                       ELSE <<"N","S","N",":"," ">> \o gen_items[i].nsn)
              /\ rows[i].initial = IntText(gen_items[i].qty)
        /\ \A p \in 1..(Len(output) - 1) : Len(output[p].overlay.rows) = 18
        /\ Len(output[Len(output)].overlay.rows) \in 1..18

\* C21: generate_dd1750_from_items leaves its input as it was (the list and
\* every field of every item, line_no included, at every step of the call),
\* and its pages partition the input exactly: nothing dropped, duplicated or
\* reordered, 18 records on every page but the last and 1 to 18 on the last,
\* each record's box number being its own line_no and not its position.
C21_InputUnchangedExactPartition ==
    /\ []((gpc = "returned" /\ gen_items # <<>>) => ExactPartition)
    /\ [][gen_items' = gen_items]_vars

\* 37 items numbered 37 down to 1 were laid out: the first row of the first
\* page carries box number 37, and the list still starts with item 37
C21_Witness ==
    /\ gpc = "returned"
    /\ Len(gen_items) = 37
    /\ gen_items[1].line_no = 37
    /\ output[1].overlay.rows[1].box = <<"3","7">>
    /\ output[3].overlay.rows[1].box = <<"1">>

=============================================================================
